---- MODULE Spec2Model ----
(***************************************************************************)
(* Model of pyintervals/interval.py: the frozen dataclass Interval with    *)
(* its validating __post_init__, and the free functions contains_point,    *)
(* overlaps and contains.  The functions are pure; the state is that of a  *)
(* caller holding two names bound to intervals, together with the last     *)
(* call it made and what that call returned or raised.                     *)
(***************************************************************************)
EXTENDS Integers, FiniteSets, Sequences, TLC

\* ---------------------------------------------------------------- bounds
MaxB == 3
MaxValue == 1

Boundary == 0..MaxB
Values == 0..MaxValue
Slots == {"x", "y"}

\* ------------------------------------------------------------ data model
\* A name that is not bound to any Interval.
Unbound == [start |-> -1, end |-> -1, value |-> -1]

\* The dataclass fields (start, end, value).
Interval(start, end, value) == [start |-> start, end |-> end, value |-> value]

\* __post_init__: the exception raised by the validation, "none" if none.
post_init_ge(self) == IF self.start >= self.end THEN "RuntimeError" ELSE "none"

post_init(self) == IF self.start > self.end THEN "RuntimeError" ELSE "none"

is_degenerate(self) == self.start = self.end

duration(self) == self.end - self.start

\* The order derived by dataclass(order=True): tuples (start, end, value).
tuple_le(interval, other) ==
    \/ interval.start < other.start
    \/ /\ interval.start = other.start
       /\ \/ interval.end < other.end
          \/ /\ interval.end = other.end
             /\ interval.value <= other.value

get_ordered_unordered(interval, other) == <<interval, other>>

get_ordered(interval, other) ==
    IF interval.start <= other.start
    THEN <<interval, other>>
    ELSE <<other, interval>>

contains_point_open_start(interval, point) ==
    IF is_degenerate(interval)
    THEN interval.start = point
    ELSE interval.start < point /\ point < interval.end

contains_point_closed_end(interval, point) ==
    IF is_degenerate(interval)
    THEN interval.start = point
    ELSE interval.start <= point /\ point <= interval.end

contains_point(interval, point) ==
    IF is_degenerate(interval)
    THEN interval.start = point
    ELSE interval.start <= point /\ point < interval.end

overlaps_le(interval, other) ==
    IF is_degenerate(interval) /\ is_degenerate(other)
    THEN contains_point(interval, other.start)
    ELSE IF is_degenerate(interval)
    THEN contains_point(other, interval.start)
    ELSE IF is_degenerate(other)
    THEN contains_point(interval, other.start)
    ELSE LET ordered == get_ordered(interval, other)
             first == ordered[1]
             second == ordered[2]
         IN second.start <= first.end

overlaps(interval, other) ==
    IF is_degenerate(interval) /\ is_degenerate(other)
    THEN contains_point(interval, other.start)
    ELSE IF is_degenerate(interval)
    THEN contains_point(other, interval.start)
    ELSE IF is_degenerate(other)
    THEN contains_point(interval, other.start)
    ELSE LET ordered == get_ordered(interval, other)
             first == ordered[1]
             second == ordered[2]
         IN second.start < first.end

contains_strict_end(interval, other) ==
    IF is_degenerate(interval) \/ is_degenerate(other)
    THEN overlaps(interval, other)
    ELSE interval.start <= other.start /\ interval.end > other.end

contains_tuple_order(interval, other) ==
    IF is_degenerate(interval) \/ is_degenerate(other)
    THEN overlaps(interval, other)
    ELSE tuple_le(interval, other) /\ interval.end >= other.end

contains_or(interval, other) ==
    IF is_degenerate(interval) \/ is_degenerate(other)
    THEN overlaps(interval, other)
    ELSE interval.start <= other.start \/ interval.end >= other.end

contains(interval, other) ==
    IF is_degenerate(interval) \/ is_degenerate(other)
    THEN overlaps(interval, other)
    ELSE interval.start <= other.start /\ interval.end >= other.end

\* ----------------------------------------------------------------- state
VARIABLES env, call, ret

vars == <<env, call, ret>>

NoCall == [op |-> "none", slot |-> "none", self |-> Unbound,
           other |-> Unbound, point |-> -1]

NoRet == [bool |-> FALSE, diff |-> 0, obj |-> Unbound, exc |-> "none"]

Init ==
    /\ env = [s \in Slots |-> Unbound]
    /\ call = NoCall
    /\ ret = NoRet

\* slot = Interval(start, end, value)
New(slot, start, end, value) ==
    LET self == Interval(start, end, value)
        exc == post_init(self)
    IN /\ call' = [NoCall EXCEPT !.op = "Interval", !.slot = slot,
                                 !.self = [start |-> start, end |-> end,
                                           value |-> value]]
       /\ IF exc = "none"
          THEN /\ env' = [env EXCEPT ![slot] = self]
               /\ ret' = [NoRet EXCEPT !.obj = self]
          ELSE /\ env' = env
               /\ ret' = [NoRet EXCEPT !.exc = exc]

\* env[slot].is_degenerate()
IsDegenerate(slot) ==
    /\ env[slot] # Unbound
    /\ call' = [NoCall EXCEPT !.op = "is_degenerate", !.slot = slot,
                              !.self = env[slot]]
    /\ ret' = [NoRet EXCEPT !.bool = is_degenerate(env[slot])]
    /\ UNCHANGED env

\* env[slot].duration()
Duration(slot) ==
    /\ env[slot] # Unbound
    /\ call' = [NoCall EXCEPT !.op = "duration", !.slot = slot,
                              !.self = env[slot]]
    /\ ret' = [NoRet EXCEPT !.diff = duration(env[slot])]
    /\ UNCHANGED env

\* contains_point(env[slot], point)
ContainsPoint(slot, point) ==
    /\ env[slot] # Unbound
    /\ call' = [NoCall EXCEPT !.op = "contains_point", !.slot = slot,
                              !.self = env[slot], !.point = point]
    /\ ret' = [NoRet EXCEPT !.bool = contains_point(env[slot], point)]
    /\ UNCHANGED env

\* env[slot].overlaps_with(env[arg])
OverlapsWith(slot, arg) ==
    /\ env[slot] # Unbound
    /\ env[arg] # Unbound
    /\ call' = [NoCall EXCEPT !.op = "overlaps", !.slot = slot,
                              !.self = env[slot], !.other = env[arg]]
    /\ ret' = [NoRet EXCEPT !.bool = overlaps(env[slot], env[arg])]
    /\ UNCHANGED env

\* env[slot].contains(env[arg])
Contains(slot, arg) ==
    /\ env[slot] # Unbound
    /\ env[arg] # Unbound
    /\ call' = [NoCall EXCEPT !.op = "contains", !.slot = slot,
                              !.self = env[slot], !.other = env[arg]]
    /\ ret' = [NoRet EXCEPT !.bool = contains(env[slot], env[arg])]
    /\ UNCHANGED env

Next ==
    \/ \E slot \in Slots, start \in Boundary, end \in Boundary, value \in Values :
           New(slot, start, end, value)
    \/ \E slot \in Slots : IsDegenerate(slot)
    \/ \E slot \in Slots : Duration(slot)
    \/ \E slot \in Slots, point \in Boundary : ContainsPoint(slot, point)
    \/ \E slot \in Slots, arg \in Slots : OverlapsWith(slot, arg)
    \/ \E slot \in Slots, arg \in Slots : Contains(slot, arg)

Spec == Init /\ [][Next]_vars

\* ------------------------------------------------------------- invariants
ValidInterval(i) ==
    /\ i.start \in Boundary
    /\ i.end \in Boundary
    /\ i.value \in Values
    /\ i.start <= i.end

TypeOK ==
    /\ \A s \in Slots : env[s] = Unbound \/ ValidInterval(env[s])
    /\ call.op \in {"none", "Interval", "is_degenerate", "duration",
                    "contains_point", "overlaps", "contains"}
    /\ ret.bool \in BOOLEAN
    /\ ret.exc \in {"none", "RuntimeError"}

\* The points of an interval: the p with contains_point(i, p) true.
PointsOf(i) == {p \in Boundary : contains_point(i, p)}

WithValue(i, v) == [i EXCEPT !.value = v]

\* ----------------------------------------------------------------- claims
Degenerate(i) == i.start = i.end

C2_ContainsIffSubset ==
    call.op = "contains" =>
        (ret.bool <=> PointsOf(call.other) \subseteq PointsOf(call.self))

\* C3: for a degenerate d and a non-degenerate n, contains(d, n) is false,
\* contains(n, d) is true whenever n.start <= d.start < n.end, and
\* contains(d, d') is true for two degenerate intervals at the same point.
C3_DegenerateContainment ==
    call.op = "contains" =>
        /\ (Degenerate(call.self) /\ ~Degenerate(call.other)) => ~ret.bool
        /\ (/\ ~Degenerate(call.self)
            /\ Degenerate(call.other)
            /\ call.self.start <= call.other.start
            /\ call.other.start < call.self.end) => ret.bool
        /\ (/\ Degenerate(call.self)
            /\ Degenerate(call.other)
            /\ call.self.start = call.other.start) => ret.bool

\* C4: overlaps(a, b) is true iff some point p of the boundary domain has
\* contains_point(a, p) and contains_point(b, p) both true.
C4_OverlapsIffSharedPoint ==
    call.op = "overlaps" =>
        (ret.bool <=> PointsOf(call.self) \cap PointsOf(call.other) # {})

C4_Witness ==
    /\ call.op = "overlaps"
    /\ ~Degenerate(call.self)
    /\ ~Degenerate(call.other)
    /\ call.self.start > call.other.start
    /\ call.self.start + 1 = call.other.end
    /\ ret.bool

\* C5: overlaps is symmetric: the value returned by overlaps(a, b) is the
\* value of overlaps(b, a).
C5_OverlapsSymmetric ==
    call.op = "overlaps" => ret.bool = overlaps(call.other, call.self)

C5_Witness ==
    /\ call.op = "overlaps"
    /\ Degenerate(call.self)
    /\ ~Degenerate(call.other)
    /\ call.self.start = call.other.start
    /\ ret.bool

\* C6: two non-degenerate intervals that merely touch (a.end = b.start) do
\* not overlap; a degenerate interval at the end of a non-degenerate one
\* does not overlap it; a degenerate interval at its start does.
C6_HalfOpenBoundary ==
    call.op = "overlaps" =>
        /\ (/\ ~Degenerate(call.self)
            /\ ~Degenerate(call.other)
            /\ call.self.end = call.other.start) => ~ret.bool
        /\ (/\ ~Degenerate(call.self)
            /\ Degenerate(call.other)
            /\ call.other.start = call.self.end) => ~ret.bool
        /\ (/\ ~Degenerate(call.self)
            /\ Degenerate(call.other)
            /\ call.other.start = call.self.start) => ret.bool

C6_Witness ==
    /\ call.op = "overlaps"
    /\ ~Degenerate(call.self)
    /\ Degenerate(call.other)
    /\ call.other.start = call.self.end
    /\ ~ret.bool

\* C7: contains is reflexive: contains(a, a) is true for every valid a,
\* degenerate or not.
C7_ContainsReflexive ==
    (call.op = "contains" /\ call.self = call.other) => ret.bool

C7_Witness ==
    /\ call.op = "contains"
    /\ call.self = call.other
    /\ ~Degenerate(call.self)
    /\ ret.bool

\* C8: contains_point(interval, point) is point = interval.start when the
\* interval is degenerate, and interval.start <= point < interval.end
\* otherwise.
C8_ContainsPoint ==
    call.op = "contains_point" =>
        /\ call.self.start = call.self.end =>
               (ret.bool <=> call.point = call.self.start)
        /\ call.self.start # call.self.end =>
               (ret.bool <=> (/\ call.self.start <= call.point
                              /\ call.point < call.self.end))

C8_Witness ==
    /\ call.op = "contains_point"
    /\ call.self.start # call.self.end
    /\ call.point = call.self.start
    /\ ret.bool

\* C9: the value payload never influences the predicates: replacing the
\* values of the arguments by any other values leaves the result of
\* overlaps, contains, contains_point and is_degenerate unchanged.
C9_ValueIrrelevant ==
    \A v \in Values, w \in Values :
        /\ call.op = "overlaps" =>
               ret.bool = overlaps(WithValue(call.self, v),
                                   WithValue(call.other, w))
        /\ call.op = "contains" =>
               ret.bool = contains(WithValue(call.self, v),
                                   WithValue(call.other, w))
        /\ call.op = "contains_point" =>
               ret.bool = contains_point(WithValue(call.self, v), call.point)
        /\ call.op = "is_degenerate" =>
               ret.bool = is_degenerate(WithValue(call.self, v))

C9_Witness ==
    /\ call.op = "contains"
    /\ ~Degenerate(call.self)
    /\ call.self.start = call.other.start
    /\ call.self.end = call.other.end
    /\ call.self.value > call.other.value
    /\ ret.bool

\* C10: containment implies overlap: if contains(a, b) is true then
\* overlaps(a, b) is true, and when at least one of a, b is degenerate the
\* two agree exactly.
C10_ContainsImpliesOverlaps ==
    call.op = "contains" =>
        /\ ret.bool => overlaps(call.self, call.other)
        /\ (Degenerate(call.self) \/ Degenerate(call.other)) =>
               ret.bool = overlaps(call.self, call.other)

C10_Witness ==
    /\ call.op = "contains"
    /\ ~Degenerate(call.self)
    /\ ~Degenerate(call.other)
    /\ call.self.start < call.other.start
    /\ call.other.end < call.self.end
    /\ ret.bool

====
